---- MODULE Spec2Model ----
(***************************************************************************)
(* A model of txclib/utils.py: the module-level pool managers, the request *)
(* executor make_request_with_connection_info, determine_charset,          *)
(* parse_tx_url, regex_from_filefilter and valid_slug.                     *)
(*                                                                         *)
(* Text is a sequence of one-character strings, bytes are numbers 0..255.  *)
(***************************************************************************)
EXTENDS Integers, Sequences, FiniteSets, TLC

VARIABLES
    env,          \* os.environ, restricted to http_proxy / https_proxy
    env0,         \* history: os.environ as it was when the module was imported
    managers,     \* the module-level dict  managers
    pc,           \* position inside make_request_with_connection_info
    host,         \* argument  host
    scheme,       \* local  scheme
    manager,      \* local  manager
    response,     \* local  response  (None or the urllib3 response)
    data,         \* local  data
    charset,      \* local  charset
    outcome,      \* how the call ends: the value returned or the exception raised
    sent,         \* manager.request() calls made by the current call
    open,         \* number of responses acquired and not yet closed
    closes,       \* response.close() calls made by the current call
    slug_call,    \* one call of valid_slug: argument and returned value
    parse_call,   \* one call of parse_tx_url
    filter_call   \* one call of regex_from_filefilter

vars == <<env, env0, managers, pc, host, scheme, manager, response, data,
          charset, outcome, sent, open, closes, slug_call, parse_call,
          filter_call>>

httpVars == <<env, env0, managers, pc, host, scheme, manager, response, data,
              charset, outcome, sent, open, closes>>

(***************************************************************************)
(* Text helpers                                                            *)
(***************************************************************************)
LowerLetters == {"a","b","c","d","e","f","g","h","i","j","k","l","m",
                 "n","o","p","q","r","s","t","u","v","w","x","y","z"}
UpperLetters == {"A","B","C","D","E","F","G","H","I","J","K","L","M",
                 "N","O","P","Q","R","S","T","U","V","W","X","Y","Z"}
Digits == {"0","1","2","3","4","5","6","7","8","9"}
AlNum == LowerLetters \cup UpperLetters \cup Digits
NL == "\n"
HttpPrefix == <<"h","t","t","p",":","/","/">>
HttpsPrefix == <<"h","t","t","p","s",":","/","/">>

\* All sequences over alphabet  a  of length 0..n.
SeqsUpTo(a, n) == UNION {[1..k -> a] : k \in 0..n}

\* str.startswith
startswith(s, p) == Len(s) >= Len(p) /\ SubSeq(s, 1, Len(p)) = p

\* s[i:]  with a 1-based first index
From(s, i) == SubSeq(s, i, Len(s))

\* Whether  p  occurs in  s  at position  i.
OccursAt(s, p, i) == i >= 1 /\ i + Len(p) - 1 <= Len(s)
                     /\ SubSeq(s, i, i + Len(p) - 1) = p

\* The regex anchor  $  without re.MULTILINE: the end of the text, or just
\* before a newline that is the last character of the text.
\* n  is the number of characters consumed so far.
EndAnchor(s, n) == \/ n = Len(s)
                   \/ n = Len(s) - 1 /\ s[Len(s)] = NL

(***************************************************************************)
(* valid_slug                                                              *)
(***************************************************************************)
\* str.split(sep) for a one-character separator.
RECURSIVE split(_, _)
split(s, sep) ==
    IF \A i \in 1..Len(s) : s[i] # sep
    THEN <<s>>
    ELSE LET i == CHOOSE k \in 1..Len(s) :
                     s[k] = sep /\ \A j \in 1..(k-1) : s[j] # sep
         IN  <<SubSeq(s, 1, i-1)>> \o split(From(s, i+1), sep)

\* The character class [A-Za-z0-9_-]
SlugChars == AlNum \cup {"_", "-"}

\* re.match("^[A-Za-z0-9_-]*$", s)
MatchSlugPart(s) ==
    \E n \in 0..Len(s) : /\ \A i \in 1..n : s[i] \in SlugChars
                         /\ EndAnchor(s, n)

valid_slug(slug) ==
    LET parts == split(slug, ".")
    IN  IF Len(parts) # 2
        THEN FALSE          \* a, b = ... raises ValueError
        ELSE MatchSlugPart(parts[1]) /\ MatchSlugPart(parts[2])

MaxSlugLen == 4
SlugAlphabet == {"a", "9", "-", ".", " ", NL}
SlugInputs == SeqsUpTo(SlugAlphabet, MaxSlugLen)

NoSlugCall == [slug |-> <<>>, done |-> TRUE, ret |-> FALSE]
NoParseCall == [url |-> <<>>, src |-> <<>>, order |-> <<>>, done |-> TRUE,
                ret |-> [kind |-> "none", fields |-> <<>>]]
NoFilterCall == [file_filter |-> <<>>, root_path |-> <<>>, legacy |-> FALSE,
                 done |-> TRUE, ret |-> <<>>]

(***************************************************************************)
(* The pool managers, built when the module is imported                    *)
(***************************************************************************)
num_pools == 1
EnvVars == {"http_proxy", "https_proxy"}
Unset == "unset"
ProxyUrls == {"http://proxy:3128", "http://other:8080"}
Envs == [EnvVars -> ProxyUrls \cup {Unset}]

\* urllib3.PoolManager(...) and urllib3.ProxyManager(...), by their arguments.
\* "default" stands for an argument that is not passed.
PoolManager(n, cert_reqs, assert_hostname) ==
    [class |-> "PoolManager", proxy_url |-> "none", num_pools |-> n,
     cert_reqs |-> cert_reqs, assert_hostname |-> assert_hostname]
ProxyManager(proxy_url, n, cert_reqs, assert_hostname) ==
    [class |-> "ProxyManager", proxy_url |-> proxy_url, num_pools |-> n,
     cert_reqs |-> cert_reqs, assert_hostname |-> assert_hostname]

\* The dict  managers  that the import builds in the environment  e.
InitManagers(e) ==
    [s \in {"http", "https"} |->
        IF s = "http"
        THEN IF e["http_proxy"] # Unset
             THEN ProxyManager(e["http_proxy"], num_pools, "default", "default")
             ELSE PoolManager(num_pools, "default", "default")
        ELSE IF e["https_proxy"] # Unset
             THEN ProxyManager(e["https_proxy"], num_pools, "CERT_NONE", "False")
             ELSE PoolManager(num_pools, "CERT_NONE", "False")]

(***************************************************************************)
(* Bytes and text: bytes.decode("utf-8")                                   *)
(***************************************************************************)
DecodeError == <<-1>>
IsCont(b) == b >= 128 /\ b <= 191

\* The code points of the UTF-8 text  b , or DecodeError (UnicodeDecodeError).
RECURSIVE utf8_decode(_)
utf8_decode(b) ==
    IF b = <<>> THEN <<>>
    ELSE
      LET b1 == b[1]
          n  == IF b1 < 128 THEN 1
                ELSE IF b1 >= 194 /\ b1 <= 223 THEN 2
                ELSE IF b1 >= 224 /\ b1 <= 239 THEN 3
                ELSE IF b1 >= 240 /\ b1 <= 244 THEN 4
                ELSE 0
          ok == /\ n > 0 /\ Len(b) >= n
                /\ \A i \in 2..n : IsCont(b[i])
                /\ (b1 = 224 => b[2] >= 160)
                /\ (b1 = 237 => b[2] <= 159)
                /\ (b1 = 240 => b[2] >= 144)
                /\ (b1 = 244 => b[2] <= 143)
          cp == CASE n = 1 -> b1
                  [] n = 2 -> (b1 - 192) * 64 + (b[2] - 128)
                  [] n = 3 -> (b1 - 224) * 4096 + (b[2] - 128) * 64 + (b[3] - 128)
                  [] OTHER -> (b1 - 240) * 262144 + (b[2] - 128) * 4096
                              + (b[3] - 128) * 64 + (b[4] - 128)
          rest == IF ok THEN utf8_decode(From(b, n + 1)) ELSE DecodeError
      IN  IF ~ok \/ rest = DecodeError THEN DecodeError ELSE <<cp>> \o rest

(***************************************************************************)
(* determine_charset                                                       *)
(***************************************************************************)
LowerSeq == <<"a","b","c","d","e","f","g","h","i","j","k","l","m",
              "n","o","p","q","r","s","t","u","v","w","x","y","z">>
UpperSeq == <<"A","B","C","D","E","F","G","H","I","J","K","L","M",
              "N","O","P","Q","R","S","T","U","V","W","X","Y","Z">>
\* str.lower
lower(s) == [i \in DOMAIN s |->
               IF s[i] \in UpperLetters
               THEN LowerSeq[CHOOSE k \in 1..26 : UpperSeq[k] = s[i]]
               ELSE s[i]]

UTF8 == <<"u","t","f","-","8">>

\* A Content-Type header of a response:  header  says whether the response
\* has one ("absent"), has an empty one ("empty") or has a value; has_charset
\* and charset give the charset parameter of the value.
NoContentType == [header |-> "absent", has_charset |-> FALSE, charset |-> <<>>]
EmptyContentType == [header |-> "empty", has_charset |-> FALSE, charset |-> <<>>]
ContentType(has, cs) == [header |-> "value", has_charset |-> has, charset |-> cs]

\* message.get_charsets() of the header parsed as a MIME message: one entry,
\* the charset parameter in lower case, or None (here <<>>) without one.
get_charsets(content_type) ==
    IF content_type.has_charset THEN << lower(content_type.charset) >>
    ELSE << <<>> >>

\* determine_charset that never looks at the header.
determine_charset_default(r) == UTF8

determine_charset(r) ==
    IF r.content_type.header = "value"
       /\ get_charsets(r.content_type)[1] # <<>>
    THEN get_charsets(r.content_type)[1]
    ELSE UTF8

(***************************************************************************)
(* make_request_with_connection_info                                       *)
(***************************************************************************)
MaxBodyLen == 2
ByteAlphabet == {97, 195, 169}
Bodies == SeqsUpTo(ByteAlphabet, MaxBodyLen)
Statuses == {199, 200, 399, 400, 404, 500}
ISO_lower == <<"i","s","o","-","8","8","5","9","-","1">>
ISO_upper == <<"I","S","O","-","8","8","5","9","-","1">>
ContentTypes == { NoContentType, EmptyContentType, ContentType(FALSE, <<>>),
                  ContentType(TRUE, <<>>), ContentType(TRUE, ISO_lower),
                  ContentType(TRUE, ISO_upper) }
Responses == [status : Statuses, data : Bodies, content_type : ContentTypes]

Hosts == { HttpPrefix \o <<"h">>, HttpsPrefix \o <<"h">>,
           <<"f","t","p",":","/","/","h">>, <<"h">>,
           <<"h","t","t","p","x">> }

NoOutcome == [kind |-> "none", type |-> "none", text |-> <<>>, charset |-> <<>>]
Raise(type, text) == [kind |-> "raise", type |-> type, text |-> text, charset |-> <<>>]
Return(text, cs) == [kind |-> "return", type |-> "none", text |-> text, charset |-> cs]
UnknownSchemeText == <<"U","n","k","n","o","w","n"," ","s","c","h","e","m","e">>

\* A scheme test that looks at "http" only.
scheme_of_lenient(h) ==
    IF startswith(h, <<"h","t","t","p">>) THEN "http"
    ELSE IF startswith(h, HttpsPrefix) THEN "https"
    ELSE "unknown"

\* The scheme the if/elif/else on  host  picks.
scheme_of(h) ==
    IF startswith(h, HttpPrefix) THEN "http"
    ELSE IF startswith(h, HttpsPrefix) THEN "https"
    ELSE "unknown"

\* A lookup that builds the manager from the environment of the moment.
ManagerFromEnv(s) == InitManagers(env)[s]

\* managers[scheme]
ManagerFor(s) == managers[s]

\* A close that is made on the successful path only.
ShouldCloseOnSuccess == response # <<>> /\ outcome.kind = "return"

\* finally:  if response is not None
ShouldClose == response # <<>>

\* What lines 151-160 make of a response: the completion of the call.
Process(r) ==
    LET text == utf8_decode(r.data)
        cs == determine_charset(r)
    IN  IF text = DecodeError THEN Raise("UnicodeDecodeError", <<>>)
        ELSE IF r.status < 200 \/ r.status >= 400
             THEN IF r.status = 404 THEN Raise("HttpNotFound", text)
                  ELSE Raise("Exception", text)
             ELSE Return(text, cs)

\* The http side at rest, with nothing in the environment.
HttpAtRest ==
    /\ env = [v \in EnvVars |-> Unset]
    /\ env0 = env
    /\ managers = InitManagers(env)
    /\ pc = "idle" /\ host = <<>> /\ scheme = "none" /\ manager = <<>>
    /\ response = <<>> /\ data = <<>> /\ charset = <<>>
    /\ outcome = NoOutcome /\ sent = 0 /\ open = 0 /\ closes = 0

pureVars == <<slug_call, parse_call, filter_call>>

HttpInit ==
    /\ env \in Envs
    /\ env0 = env
    /\ managers = InitManagers(env)
    /\ pc = "idle" /\ host = <<>> /\ scheme = "none" /\ manager = <<>>
    /\ response = <<>> /\ data = <<>> /\ charset = <<>>
    /\ outcome = NoOutcome /\ sent = 0 /\ open = 0 /\ closes = 0
    /\ slug_call = NoSlugCall
    /\ parse_call = NoParseCall
    /\ filter_call = NoFilterCall

\* The process changes its environment between two calls.
SetEnv ==
    /\ pc = "idle"
    /\ \E v \in EnvVars, x \in ProxyUrls \cup {Unset} :
         /\ x # env[v]
         /\ env' = [env EXCEPT ![v] = x]
    /\ UNCHANGED <<env0, managers, pc, host, scheme, manager, response, data,
                   charset, outcome, sent, open, closes, pureVars>>

\* Lines 121-136: the call starts; headers and request are built.
Call ==
    /\ pc = "idle"
    /\ \E h \in Hosts : host' = h
    /\ pc' = "try"
    /\ response' = <<>>
    /\ UNCHANGED <<env, env0, managers, scheme, manager, data, charset,
                   outcome, sent, open, closes, pureVars>>

\* Lines 138-143: the scheme is read off the host.
ResolveScheme ==
    /\ pc = "try"
    /\ IF scheme_of(host) = "unknown"
       THEN /\ outcome' = Raise("Exception", UnknownSchemeText)
            /\ pc' = "finally"
            /\ UNCHANGED scheme
       ELSE /\ scheme' = scheme_of(host)
            /\ pc' = "request"
            /\ UNCHANGED outcome
    /\ UNCHANGED <<env, env0, managers, host, manager, response, data,
                   charset, sent, open, closes, pureVars>>

\* Lines 144-150: the manager is looked up and the request is sent; the
\* transport answers with a response, or raises SSLError (https only), or
\* raises another of its errors.
Dispatch ==
    /\ pc = "request"
    /\ manager' = <<ManagerFor(scheme)>>
    /\ sent' = sent + 1
    /\ \/ \E r \in Responses :
            /\ response' = <<r>>
            /\ open' = open + 1
            /\ pc' = "read"
            /\ UNCHANGED outcome
       \/ /\ scheme = "https"
          /\ outcome' = Raise("SSLError", <<>>)
          /\ pc' = "except"
          /\ UNCHANGED <<response, open>>
       \/ /\ outcome' = Raise("TransportError", <<>>)
          /\ pc' = "finally"
          /\ UNCHANGED <<response, open>>
    /\ UNCHANGED <<env, env0, managers, host, scheme, data, charset, closes,
                   pureVars>>

\* Lines 151-160: charset, decoding, and the test of the status.
Read ==
    /\ pc = "read"
    /\ LET r == response[1]
           o == Process(r)
       IN  /\ outcome' = o
           /\ charset' = determine_charset(r)
           /\ data' = IF o.type = "UnicodeDecodeError" THEN r.data ELSE o.text
    /\ pc' = "finally"
    /\ UNCHANGED <<env, env0, managers, host, scheme, manager, response,
                   sent, open, closes, pureVars>>

\* Lines 161-163: the SSLError is logged and raised again.
ExceptSSLError ==
    /\ pc = "except"
    /\ pc' = "finally"
    /\ UNCHANGED <<env, env0, managers, host, scheme, manager, response, data,
                   charset, outcome, sent, open, closes, pureVars>>

\* Lines 164-166: the response, if there is one, is closed.
Finally ==
    /\ pc = "finally"
    /\ IF ShouldClose
       THEN open' = open - 1 /\ closes' = closes + 1
       ELSE UNCHANGED <<open, closes>>
    /\ pc' = "done"
    /\ UNCHANGED <<env, env0, managers, host, scheme, manager, response, data,
                   charset, outcome, sent, pureVars>>

\* Control is back with the caller; the locals of the call are gone.
BackToCaller ==
    /\ pc = "done"
    /\ pc' = "idle"
    /\ host' = <<>> /\ scheme' = "none" /\ manager' = <<>>
    /\ response' = <<>> /\ data' = <<>> /\ charset' = <<>>
    /\ outcome' = NoOutcome /\ sent' = 0 /\ closes' = 0
    /\ UNCHANGED <<env, env0, managers, open, pureVars>>

HttpNext ==
    \/ SetEnv \/ Call \/ ResolveScheme \/ Dispatch \/ Read
    \/ ExceptSSLError \/ Finally \/ BackToCaller

Spec == HttpInit /\ [][HttpNext]_vars

Done == pc = "done"
Responded == response # <<>>

\* C1: once the transport has returned a response, the status alone decides:
\* 404 raises HttpNotFound with the body text, any other status below 200 or
\* from 400 on raises the generic Exception with the body text, and 200..399
\* returns (body text, charset).
C1_StatusDecides ==
    Done /\ Responded =>
        LET r == response[1] IN
        /\ outcome.text = utf8_decode(r.data)
        /\ IF r.status = 404
           THEN outcome.kind = "raise" /\ outcome.type = "HttpNotFound"
           ELSE IF r.status < 200 \/ r.status >= 400
                THEN outcome.kind = "raise" /\ outcome.type = "Exception"
                ELSE outcome.kind = "return"

\* C2: on every exit path the response acquired by the call has been closed
\* exactly once when control returns, and no call leaves a response open.
C2_ClosedOnEveryExit ==
    /\ Done => /\ closes = (IF Responded THEN 1 ELSE 0)
               /\ open = 0
    /\ pc = "idle" => open = 0
    /\ closes <= 1

\* A call that failed after the response had arrived (its body is not UTF-8)
\* has closed the response.
C2_Witness ==
    /\ Done /\ Responded /\ closes = 1
    /\ outcome.kind = "raise" /\ outcome.type = "UnicodeDecodeError"

\* C3: a call that got a response ends with decoded text, or with one of the
\* classified failures (the generic Exception of the unknown scheme and of a
\* failed request, SSLError, HttpNotFound); there is no third outcome.
C3_TextOrClassified ==
    Done /\ Responded =>
        \/ outcome.kind = "return"
        \/ /\ outcome.kind = "raise"
           /\ outcome.type \in {"Exception", "SSLError", "HttpNotFound"}

KnownHost(h) == startswith(h, HttpPrefix) \/ startswith(h, HttpsPrefix)

ChosenAtInit(m, s) ==
    LET at0 == env0[IF s = "http" THEN "http_proxy" ELSE "https_proxy"]
    IN  IF at0 # Unset
        THEN m.class = "ProxyManager" /\ m.proxy_url = at0
        ELSE m.class = "PoolManager"

\* C5: the pool has exactly the entries 'http' and 'https', each the one
\* chosen at import from http_proxy / https_proxy; no request and no later
\* change of the environment changes an entry, and every request goes
\* through the manager chosen at import.
C5_ManagersFixed ==
    /\ DOMAIN managers = {"http", "https"}
    /\ \A s \in DOMAIN managers : ChosenAtInit(managers[s], s)
    /\ manager # <<>> => ChosenAtInit(manager[1], scheme)

\* An https request went out after https_proxy, set at import, was unset.
C5_Witness ==
    /\ Done /\ scheme = "https" /\ manager # <<>>
    /\ env0["https_proxy"] # Unset /\ env["https_proxy"] = Unset
    /\ manager[1].class = "ProxyManager"

\* The charset a Content-Type header declares, <<>> when it declares none.
Declared(ct) == IF ct.header = "value" /\ ct.has_charset THEN ct.charset ELSE <<>>

\* C10 as stated: the charset returned is the declared one, as declared, and
\* utf-8 when none is declared; the text is the UTF-8 decoding of the body.
C10_AsStated ==
    Done /\ outcome.kind = "return" =>
        LET r == response[1] IN
        /\ outcome.charset = (IF Declared(r.content_type) # <<>>
                              THEN Declared(r.content_type) ELSE UTF8)
        /\ outcome.text = utf8_decode(r.data)

\* C10 amended: the charset returned is the declared one in lower case, and
\* utf-8 when none is declared; the text is the UTF-8 decoding of the body.
C10_LowerCased ==
    Done /\ outcome.kind = "return" =>
        LET r == response[1] IN
        /\ outcome.charset = (IF Declared(r.content_type) # <<>>
                              THEN lower(Declared(r.content_type)) ELSE UTF8)
        /\ outcome.text = utf8_decode(r.data)

\* A body of two bytes that is one character came back with the charset
\* declared in upper case.
C10_Witness ==
    /\ Done /\ outcome.kind = "return"
    /\ response[1].content_type.charset = ISO_upper
    /\ outcome.charset = ISO_lower
    /\ Len(response[1].data) = 2 /\ Len(outcome.text) = 1

SlugInit ==
    /\ HttpAtRest
    /\ slug_call \in [slug : SlugInputs, done : {FALSE}, ret : {FALSE}]
    /\ parse_call = NoParseCall
    /\ filter_call = NoFilterCall

ValidSlug ==
    /\ ~slug_call.done
    /\ slug_call' = [slug_call EXCEPT !.done = TRUE,
                                      !.ret = valid_slug(slug_call.slug)]
    /\ UNCHANGED <<httpVars, parse_call, filter_call>>

SlugNext == ValidSlug

SpecSlug == SlugInit /\ [][SlugNext]_vars

\* What the documentation of valid_slug asks for: exactly one dot, and every
\* other character in [A-Za-z0-9_-].
CountOf(s, c) == Cardinality({i \in 1..Len(s) : s[i] = c})
WellFormedSlug(s) ==
    /\ CountOf(s, ".") = 1
    /\ \A i \in 1..Len(s) : s[i] = "." \/ s[i] \in SlugChars

\* C9: valid_slug(s) is true exactly when s is <part>.<part> with one dot and
\* both parts made only of [A-Za-z0-9_-]; false for a newline in a part.
C9_ValidSlugIff ==
    slug_call.done /\ slug_call # NoSlugCall
        => (slug_call.ret <=> WellFormedSlug(slug_call.slug))

(***************************************************************************)
(* TX_URLS and parse_tx_url                                                *)
(*                                                                         *)
(* A pattern is a sequence of items:                                       *)
(*   lit   a literal text            opt   one optional character  c?      *)
(*   plus  (class)+ , greedy         open/close  a named group (?P<name>..)*)
(*   end   the anchor $              bol   the anchor ^                    *)
(*   any   the dot                   star  x* for a one-character item x   *)
(***************************************************************************)
Lit(s) == [t |-> "lit", s |-> s]
Opt(c) == [t |-> "opt", c |-> c]
Plus(cls) == [t |-> "plus", cls |-> cls]
Open(name) == [t |-> "open", name |-> name]
Close(name) == [t |-> "close", name |-> name]
End == [t |-> "end"]
Bol == [t |-> "bol"]
Dot == [t |-> "any"]
Star(x) == [t |-> "star", x |-> x]

\* \w  (ASCII part)
WordChars == AlNum \cup {"_"}
\* A host class that leaves out the colon of a port.
HostClassNoPort == WordChars \cup {".", "-"}

\* (\w|\.|:|-)
HostClass == WordChars \cup {".", ":", "-"}
\* (\w|-)
SlugClass == WordChars \cup {"-"}

\* https?://(\w|\.|:|-)+   inside (?P<hostname>...)
HostnameItems ==
    << Open("hostname"), Lit(<<"h","t","t","p">>), Opt("s"),
       Lit(<<":","/","/">>), Plus(HostClass), Close("hostname") >>
\* /projects/p/(?P<project>(\w|-)+)
ProjectItems ==
    << Lit(<<"/","p","r","o","j","e","c","t","s","/","p","/">>),
       Open("project"), Plus(SlugClass), Close("project") >>
\* /resource/(?P<resource>(\w|-)+)
ResourceItems ==
    << Lit(<<"/","r","e","s","o","u","r","c","e","/">>),
       Open("resource"), Plus(SlugClass), Close("resource") >>

ResourcePattern ==
    HostnameItems \o ProjectItems \o ResourceItems \o <<Opt("/"), End>>

\* The project pattern without its closing  $ .
ProjectPatternUnanchored == HostnameItems \o ProjectItems \o <<Opt("/")>>

ProjectPattern == HostnameItems \o ProjectItems \o <<Opt("/"), End>>

TX_URLS(type_) == IF type_ = "resource" THEN ResourcePattern ELSE ProjectPattern

\* The length of the longest run of characters of  cls  in  s  after the
\* first  n  characters.
RECURSIVE RunLength(_, _, _)
RunLength(s, n, cls) ==
    IF n < Len(s) /\ s[n+1] \in cls THEN 1 + RunLength(s, n+1, cls) ELSE 0

\* Whether the one-character item  x  (a literal or the dot) takes  c.
Takes(x, c) == IF x.t = "any" THEN c # NL ELSE x.s = <<c>>

RECURSIVE StarLength(_, _, _)
StarLength(s, n, x) ==
    IF n < Len(s) /\ Takes(x, s[n+1]) THEN 1 + StarLength(s, n+1, x) ELSE 0

Max(S) == CHOOSE x \in S : \A y \in S : y <= x

\* re.match(pat, s) from item  i  on, with  n  characters consumed and the
\* groups  caps  so far: <<groupdict>> for the match the backtracking matcher
\* finds first (greedy choices first), <<>> when there is none.
RECURSIVE Run(_, _, _, _, _)
Run(pat, i, s, n, caps) ==
    IF i > Len(pat) THEN <<caps>>
    ELSE LET it == pat[i] IN
      CASE it.t = "lit" ->
             IF OccursAt(s, it.s, n+1)
             THEN Run(pat, i+1, s, n + Len(it.s), caps) ELSE <<>>
        [] it.t = "opt" ->
             IF n < Len(s) /\ s[n+1] = it.c
                /\ Run(pat, i+1, s, n+1, caps) # <<>>
             THEN Run(pat, i+1, s, n+1, caps)
             ELSE Run(pat, i+1, s, n, caps)
        [] it.t = "plus" ->
             LET ok == {k \in 1..RunLength(s, n, it.cls) :
                           Run(pat, i+1, s, n+k, caps) # <<>>}
             IN  IF ok = {} THEN <<>>
                 ELSE Run(pat, i+1, s, n + Max(ok), caps)
        [] it.t = "open" ->
             Run(pat, i+1, s, n, (it.name :> n+1) @@ caps)
        [] it.t = "close" ->
             Run(pat, i+1, s, n,
                 (it.name :> SubSeq(s, caps[it.name], n)) @@ caps)
        [] it.t = "end" ->
             IF EndAnchor(s, n) THEN Run(pat, i+1, s, n, caps) ELSE <<>>
        [] it.t = "bol" ->
             IF n = 0 THEN Run(pat, i+1, s, n, caps) ELSE <<>>
        [] it.t = "any" ->
             IF n < Len(s) /\ s[n+1] # NL
             THEN Run(pat, i+1, s, n+1, caps) ELSE <<>>
        [] it.t = "star" ->
             LET ok == {k \in 0..StarLength(s, n, it.x) :
                           Run(pat, i+1, s, n+k, caps) # <<>>}
             IN  IF ok = {} THEN <<>>
                 ELSE Run(pat, i+1, s, n + Max(ok), caps)

re_match(pat, s) == Run(pat, 1, s, 0, <<>>)

Malformed == [kind |-> "MalformedUrl", fields |-> <<>>]

\* parse_tx_url(url), trying the keys of TX_URLS in the order  order  (the
\* iteration order of a dict, which Python before 3.7 does not fix).
RECURSIVE parse_in_order(_, _, _)
parse_in_order(url, order, k) ==
    IF k > Len(order) THEN Malformed          \* raise Exception("tx: Malformed url ...")
    ELSE LET m == re_match(TX_URLS(order[k]), url)
         IN  IF m # <<>> THEN [kind |-> order[k], fields |-> m[1]]
             ELSE parse_in_order(url, order, k+1)

parse_tx_url(url, order) == parse_in_order(url, order, 1)

KeyOrders == { <<"resource", "project">>, <<"project", "resource">> }
Reverse2(o) == <<o[2], o[1]>>

RECURSIVE Flatten(_)
Flatten(ss) == IF ss = <<>> THEN <<>> ELSE Head(ss) \o Flatten(Tail(ss))

\* Inputs: resource URLs built from (h, p, r), and texts glued from pieces.
MaxHostLen == 2
MaxNameLen == 2
MaxPieces == 5
HostAlphabet == {"a", ".", ":"}
NameAlphabet == {"a", "-"}
Hostnames == {pre \o hc : pre \in {HttpPrefix, HttpsPrefix},
                          hc \in SeqsUpTo(HostAlphabet, MaxHostLen) \ {<<>>}}
Names == SeqsUpTo(NameAlphabet, MaxNameLen) \ {<<>>}

to_resource_url(h, p, r) ==
    h \o <<"/","p","r","o","j","e","c","t","s","/","p","/">> \o p
      \o <<"/","r","e","s","o","u","r","c","e","/">> \o r \o <<"/">>

UrlPieces == { HttpPrefix \o <<"a">>,
               <<"/","p","r","o","j","e","c","t","s","/","p","/">>,
               <<"/","r","e","s","o","u","r","c","e","/">>,
               <<"a">>, <<"/">>, <<NL>> }

ParseInputs ==
    {[url |-> to_resource_url(h, p, r), src |-> <<h, p, r>>] :
        h \in Hostnames, p \in Names, r \in Names}
    \cup
    {[url |-> Flatten(ps), src |-> <<>>] : ps \in SeqsUpTo(UrlPieces, MaxPieces)}

ParseInit ==
    /\ HttpAtRest
    /\ slug_call = NoSlugCall
    /\ \E in \in ParseInputs :
         parse_call = [url |-> in.url, src |-> in.src, order |-> <<>>,
                       done |-> FALSE, ret |-> Malformed]
    /\ filter_call = NoFilterCall

ParseTxUrl ==
    /\ ~parse_call.done
    /\ \E order \in KeyOrders :
         parse_call' = [parse_call EXCEPT !.done = TRUE, !.order = order,
                           !.ret = parse_tx_url(parse_call.url, order)]
    /\ UNCHANGED <<httpVars, slug_call, filter_call>>

ParseNext == ParseTxUrl

SpecParse == ParseInit /\ [][ParseNext]_vars

\* C6: parsing the resource URL built from a valid (h, p, r) returns kind
\* 'resource' with exactly the fields hostname = h, project = p, resource = r.
C6_RoundTrip ==
    parse_call.done /\ parse_call.src # <<>> =>
        /\ parse_call.ret.kind = "resource"
        /\ DOMAIN parse_call.ret.fields = {"hostname", "project", "resource"}
        /\ parse_call.ret.fields["hostname"] = parse_call.src[1]
        /\ parse_call.ret.fields["project"] = parse_call.src[2]
        /\ parse_call.ret.fields["resource"] = parse_call.src[3]

\* A resource URL with a two-character host and names has been parsed.
C6_Witness ==
    /\ parse_call.done /\ parse_call.src # <<>>
    /\ Len(parse_call.src[2]) = 2 /\ Len(parse_call.src[3]) = 2
    /\ parse_call.ret.kind = "resource"

\* C7: no text is matched by both patterns, so parse_tx_url gives the same
\* answer (kind and fields, or the malformed-url failure) whichever pattern
\* is tried first.
C7_OrderIrrelevant ==
    /\ ~(re_match(ResourcePattern, parse_call.url) # <<>>
         /\ re_match(ProjectPattern, parse_call.url) # <<>>)
    /\ parse_call.done /\ parse_call.order # <<>> =>
         parse_call.ret = parse_tx_url(parse_call.url, Reverse2(parse_call.order))

\* Each of the three answers has been produced with 'project' tried first.
C7_Witness ==
    /\ parse_call.done
    /\ parse_call.order = <<"project", "resource">>
    /\ parse_call.ret.kind = "resource"
    /\ parse_call.src = <<>>
    /\ parse_tx_url(parse_call.url, <<"resource", "project">>) = parse_call.ret

(***************************************************************************)
(* regex_from_filefilter                                                   *)
(***************************************************************************)
LangToken == <<"<","l","a","n","g",">">>
BS == "\\"

\* txclib.paths, on a POSIX system: the native separator is the POSIX one,
\* and both conversions leave a path as it is.
posix_sep == "/"
native_path(path) == path
posix_path(path) == path

\* os.path.join(a, b) of posixpath
os_path_join(a, b) ==
    IF startswith(b, <<"/">>) THEN b
    ELSE IF a = <<>> \/ a[Len(a)] = "/" THEN a \o b
    ELSE a \o <<"/">> \o b

\* The characters re.escape of Python 3.7 and later puts a backslash before.
SpecialChars == {"(", ")", "[", "]", "{", "}", "?", "*", "+", "-", "|", "^",
                 "$", BS, ".", "&", "~", "#", " ", "\t", NL, "\r"}

\* re.escape leaving every character as it is.
re_escape_none(s, legacy) == s

\* re.escape(s).  legacy: Python before 3.7, which escapes every character
\* that is not alphanumeric; otherwise only the special characters.
RECURSIVE re_escape(_, _)
re_escape(s, legacy) ==
    IF s = <<>> THEN <<>>
    ELSE LET c == Head(s)
             esc == IF legacy THEN c \notin AlNum ELSE c \in SpecialChars
         IN  (IF esc THEN <<BS, c>> ELSE <<c>>) \o re_escape(Tail(s), legacy)

\* str.replace(old, new): the occurrences of  old , left to right, not
\* overlapping.
RECURSIVE replace(_, _, _)
replace(s, old, new) ==
    IF s = <<>> THEN <<>>
    ELSE IF OccursAt(s, old, 1)
         THEN new \o replace(From(s, Len(old) + 1), old, new)
         ELSE <<Head(s)>> \o replace(Tail(s), old, new)

regex_from_filefilter(file_filter, root_path, legacy) ==
    LET expr_re == re_escape(
                     posix_path(os_path_join(root_path, native_path(file_filter))),
                     legacy)
        group == <<"(", "[", "^">> \o re_escape(<<posix_sep>>, legacy)
                                   \o <<"]", "+", ")">>
        kept == replace(expr_re, <<BS, "<", "l","a","n","g", BS, ">">>, LangToken)
    IN  <<"^">> \o replace(kept, LangToken, group) \o <<"$">>

MaxFilterPieces == 3
MaxLangLen == 2
FilterPieces == { <<"a">>, <<".">>, <<"*">>, <<"(">>, <<"/">>, <<BS>>, LangToken }
FilterInputs == {Flatten(ps) : ps \in SeqsUpTo(FilterPieces, MaxFilterPieces)}
RootPaths == { <<".">>, <<"r", "/">> }

FilterInit ==
    /\ HttpAtRest
    /\ slug_call = NoSlugCall
    /\ parse_call = NoParseCall
    /\ filter_call \in [file_filter : FilterInputs, root_path : RootPaths,
                        legacy : BOOLEAN, done : {FALSE}, ret : {<<>>}]

RegexFromFilefilter ==
    /\ ~filter_call.done
    /\ filter_call' =
         [filter_call EXCEPT !.done = TRUE,
             !.ret = regex_from_filefilter(filter_call.file_filter,
                         filter_call.root_path, filter_call.legacy)]
    /\ UNCHANGED <<httpVars, slug_call, parse_call>>

FilterNext == RegexFromFilefilter

SpecFilter == FilterInit /\ [][FilterNext]_vars

(***************************************************************************)
(* What a pattern text means to Python's re, for the patterns that         *)
(* regex_from_filefilter can build: literals, \c, the dot, x*, ^, $ and    *)
(* the group ([^/]+).  A text re.compile rejects compiles to CompileError. *)
(***************************************************************************)
Universe == AlNum \cup SpecialChars \cup {"_", "/", "<", ">", ":", "x"}
NotSep == Universe \ {"/"}
GroupLegacy == <<"(", "[", "^", BS, "/", "]", "+", ")">>
GroupModern == <<"(", "[", "^", "/", "]", "+", ")">>
CompileError == <<[t |-> "error"]>>

RECURSIVE Compile(_, _, _)
Compile(p, i, acc) ==
    IF i > Len(p) THEN acc
    ELSE LET c == p[i] IN
      CASE c = BS ->
             IF i = Len(p) \/ p[i+1] \in AlNum THEN CompileError
             ELSE Compile(p, i+2, Append(acc, Lit(<<p[i+1]>>)))
        [] OccursAt(p, GroupLegacy, i) ->
             Compile(p, i + Len(GroupLegacy),
                     acc \o <<Open("1"), Plus(NotSep), Close("1")>>)
        [] OccursAt(p, GroupModern, i) ->
             Compile(p, i + Len(GroupModern),
                     acc \o <<Open("1"), Plus(NotSep), Close("1")>>)
        [] c = "(" /\ ~OccursAt(p, GroupLegacy, i) /\ ~OccursAt(p, GroupModern, i) ->
             CompileError                     \* missing ), unterminated subpattern
        [] c = "." -> Compile(p, i+1, Append(acc, Dot))
        [] c = "*" ->
             IF acc # <<>> /\ acc[Len(acc)].t \in {"lit", "any"}
             THEN Compile(p, i+1, Append(SubSeq(acc, 1, Len(acc)-1),
                                         Star(acc[Len(acc)])))
             ELSE CompileError                \* nothing to repeat
        [] c = "^" -> Compile(p, i+1, Append(acc, Bol))
        [] c = "$" -> Compile(p, i+1, Append(acc, End))
        [] OTHER -> Compile(p, i+1, Append(acc, Lit(<<c>>)))

re_compile(p) == Compile(p, 1, <<>>)

\* re.match(pattern, text) is not None
Matches(pattern, text) ==
    LET items == re_compile(pattern)
    IN  items # CompileError /\ Run(items, 1, text, 0, <<>>) # <<>>

\* The number of capturing groups of the compiled pattern.
GroupCount(pattern) ==
    LET items == re_compile(pattern)
    IN  Cardinality({i \in 1..Len(items) : items[i].t = "open"})

FullyAnchored(pattern) ==
    LET items == re_compile(pattern)
    IN  /\ items # CompileError /\ Len(items) >= 2
        /\ items[1] = Bol /\ items[Len(items)] = End

Occurrences(s, p) == {i \in 1..Len(s) : OccursAt(s, p, i)}

\* The root-joined expression of a call.
Joined(call) == posix_path(os_path_join(call.root_path, native_path(call.file_filter)))

Langs == SeqsUpTo({"e", ".", "/", NL}, MaxLangLen)
NoSeparator(lang) == \A i \in 1..Len(lang) : lang[i] # posix_sep
TestChars == {"x", "/", "a"}

\* s  with its i-th character replaced by  c.
Altered(s, i, c) == [s EXCEPT ![i] = c]

\* The pattern takes the literal part of the expression literally: with
\* <lang> replaced by  lang , changing any one character outside  lang
\* makes the text not match.
OnlyLiterally(call, lang) ==
    LET j == Joined(call)
        at == CHOOSE i \in Occurrences(j, LangToken) : TRUE
        text == replace(j, LangToken, lang)
    IN  \A i \in 1..Len(text) :
          (i < at \/ i >= at + Len(lang)) =>
             \A c \in TestChars \ {text[i]} :
                ~Matches(call.ret, Altered(text, i, c))

OneToken(call) ==
    /\ call.done /\ call # NoFilterCall
    /\ Cardinality(Occurrences(call.file_filter, LangToken)) = 1

\* C8 as stated: for a filter with exactly one <lang>, the pattern is fully
\* anchored, has exactly one capturing group, matches the joined expression
\* with <lang> replaced by ANY text without a path separator, and takes every
\* other character literally.
C8_AsStated ==
    OneToken(filter_call) =>
        /\ FullyAnchored(filter_call.ret)
        /\ GroupCount(filter_call.ret) = 1
        /\ \A lang \in Langs : NoSeparator(lang) =>
             /\ Matches(filter_call.ret,
                        replace(Joined(filter_call), LangToken, lang))
             /\ OnlyLiterally(filter_call, lang)

\* C8 amended: the same, for any NON-EMPTY text without a path separator in
\* the place of <lang> (the group is ([^/]+), one character or more).
C8_NonEmptyLang ==
    OneToken(filter_call) =>
        /\ FullyAnchored(filter_call.ret)
        /\ GroupCount(filter_call.ret) = 1
        /\ \A lang \in Langs : NoSeparator(lang) /\ lang # <<>> =>
             /\ Matches(filter_call.ret,
                        replace(Joined(filter_call), LangToken, lang))
             /\ OnlyLiterally(filter_call, lang)

\* A filter with one <lang> and the metacharacters '.', '(' or '*' has been
\* compiled, under the escape of an old Python.
C8_Witness ==
    /\ OneToken(filter_call)
    /\ filter_call.legacy
    /\ \E i \in 1..Len(filter_call.file_filter) :
          filter_call.file_filter[i] \in {".", "(", "*"}
    /\ Matches(filter_call.ret,
               replace(Joined(filter_call), LangToken, <<"e", ".">>))

====
